---- MODULE Spec2Model ----
(***************************************************************************)
(* Phase-flow engine of teg-rw (base/src/phase_flow_control.rs).           *)
(*                                                                         *)
(* The engine owns a PhaseFlowConfig decoded from a RON document, the id   *)
(* of the current phase and a list of observers.  Every operation of       *)
(* `impl PhaseFlowControl` is one action.  `delivered` is the sequence of  *)
(* on_event calls made so far, in call order; each entry also records the  *)
(* value current_phase had when the call was made.  `last` describes the   *)
(* most recent call: its arguments, its return value, the engine state it  *)
(* started from and whether it was the first call on the engine.           *)
(*                                                                         *)
(* Rule-set validation (base/src/rule.rs) is a second state machine over   *)
(* `ruleset`, a decoded RuleSet, and `verdict`, an Option holding what     *)
(* validate returned for it.  The loader (base/src/loader.rs) is a third   *)
(* one: `loaded` is an Option holding what load_ron returned.  Board       *)
(* validation (base/src/board.rs) is a fourth: `board` is a                *)
(* FieldStructure and `checked` what its validate returned.  Each          *)
(* specification holds the variables it does not use fixed.                *)
(***************************************************************************)
EXTENDS Integers, Sequences, FiniteSets, TLC

VARIABLES doc, config, current_phase, observers, delivered, last,
          ruleset, verdict, loaded, board, checked

vars == <<doc, config, current_phase, observers, delivered, last, ruleset, verdict,
          loaded, board, checked>>

(***************************************************************************)
(* Bounds of the model.                                                    *)
(***************************************************************************)
\* an operation is started only while fewer than MaxDelivered on_event
\* calls have been made
MaxDelivered == 4
\* at most MaxObservers observers are registered
MaxObservers == 2

(***************************************************************************)
(* Input alphabets.                                                        *)
(***************************************************************************)
\* phase ids that occur in documents; "limbo" is never declared as a phase
PhaseIds == {"setup", "place", "limbo"}
\* action kinds callers pass and documents declare
ActionKinds == {"end_phase", "attack"}
\* result labels callers pass and documents declare
ResultLabels == {"done", "fail"}
\* identities of the observer objects a caller may register
ObserverIds == {"o1", "o2", "o3"}

(***************************************************************************)
(* Generic helpers.                                                        *)
(***************************************************************************)
Range(s) == {s[i] : i \in DOMAIN s}

\* all orderings of the finite set S, each element once
Orderings(S) ==
    {s \in [1..Cardinality(S) -> S] : \A i, j \in DOMAIN s : i # j => s[i] # s[j]}

(***************************************************************************)
(* Option<T>: None is the empty sequence, Some(x) is <<x>>.  A chain       *)
(* opt.and_then(f) or opt.map(f) is written IF IsSome(opt) THEN ... ELSE   *)
(* None.                                                                   *)
(***************************************************************************)
None == <<>>
Some(x) == <<x>>
IsSome(opt) == Len(opt) > 0
Unwrap(opt) == opt[1]

\* HashMap::get
Get(map, key) == IF key \in DOMAIN map THEN Some(map[key]) ELSE None

(***************************************************************************)
(* Result<T, String>.                                                      *)
(***************************************************************************)
Ok(v) == [ok |-> TRUE, val |-> v]
Err(msg) == [ok |-> FALSE, err |-> msg]
Unit == "()"

\* the two error strings of the engine
ActionNotFound == "Action not found"
InvalidActionOrResult == "Invalid action or result"

(***************************************************************************)
(* PhaseFlowEvent.                                                         *)
(***************************************************************************)
\* PhaseChanged with its two fields exchanged
PhaseChangedSwapped(from, to) == [type |-> "PhaseChanged", from |-> to, to |-> from]

PhaseChanged(from, to) == [type |-> "PhaseChanged", from |-> from, to |-> to]

ActionExecuted(phase, action, result) ==
    [type |-> "ActionExecuted", phase |-> phase, action |-> action, result |-> result]

\* ConstraintChecked carrying the opposite of the outcome
ConstraintCheckedNegated(phase, action, success) ==
    [type |-> "ConstraintChecked", phase |-> phase, action |-> action,
     success |-> ~success]

ConstraintChecked(phase, action, success) ==
    [type |-> "ConstraintChecked", phase |-> phase, action |-> action,
     success |-> success]

(***************************************************************************)
(* RON documents and their decoding.                                       *)
(*                                                                         *)
(* A document lists its phases, and each phase its actions, in the order   *)
(* they are written.  Decoding stores both levels in HashMaps, which keep  *)
(* the keys and values but not the order.                                  *)
(***************************************************************************)
DocAction(kind, result) == [kind |-> kind, result |-> result, constraints |-> <<>>]

NoResult == <<>>
OneResult(label, to) == [l \in {label} |-> to]
TwoResults(toDone, toFail) == [l \in ResultLabels |-> IF l = "done" THEN toDone ELSE toFail]

\* the phase lists the documents are built from
PhaseLists ==
    { \* the scenario of the specification
      << [id |-> "setup", actions |-> << DocAction("end_phase", OneResult("done", "place")) >>],
         [id |-> "place", actions |-> << >>] >>,
      \* a cycle, a self-loop, two actions per phase
      << [id |-> "setup", actions |-> << DocAction("end_phase", TwoResults("place", "setup")),
                                          DocAction("attack", OneResult("done", "setup")) >>],
         [id |-> "place", actions |-> << DocAction("attack", TwoResults("place", "setup")),
                                          DocAction("end_phase", OneResult("done", "setup")) >>] >>,
      \* a result that names an undeclared phase, an action without results
      << [id |-> "place", actions |-> << DocAction("attack", NoResult),
                                          DocAction("end_phase", OneResult("fail", "limbo")) >>],
         [id |-> "setup", actions |-> << DocAction("attack", OneResult("done", "place")) >>] >> }

Docs == {[default_phase |-> d, phases |-> p] : d \in PhaseIds, p \in PhaseLists}

\* serde: a sequence of keyed entries into a HashMap (a later entry with the
\* same key replaces an earlier one)
DecodeActions(actions) ==
    [k \in {actions[i].kind : i \in DOMAIN actions} |->
        LET i == CHOOSE i \in DOMAIN actions :
                    /\ actions[i].kind = k
                    /\ \A j \in DOMAIN actions : actions[j].kind = k => j <= i
        IN  [result |-> actions[i].result, constraints |-> actions[i].constraints]]

DecodePhases(phases) ==
    [p \in {phases[i].id : i \in DOMAIN phases} |->
        LET i == CHOOSE i \in DOMAIN phases :
                    /\ phases[i].id = p
                    /\ \A j \in DOMAIN phases : phases[j].id = p => j <= i
        IN  [actions |-> DecodeActions(phases[i].actions)]]

Deserialize(d) ==
    [default_phase |-> d.default_phase, phases |-> DecodePhases(d.phases), goals |-> <<>>]

(***************************************************************************)
(* PhaseFlowControl.                                                       *)
(***************************************************************************)
\* New with current_phase left as the empty string
NewUnset(cfg) ==
    [config |-> cfg, current_phase |-> "", observers |-> <<>>]

\* PhaseFlowControl::new
New(cfg) ==
    [config |-> cfg, current_phase |-> cfg.default_phase, observers |-> <<>>]

\* NotifyObservers walking the observers vector from its end
NotifyObserversReversed(log, obs, event, phase) ==
    log \o [i \in DOMAIN obs |->
               [observer |-> obs[Len(obs) + 1 - i], event |-> event, at |-> phase]]

\* NotifyObservers calling the first observer only
NotifyObserversFirstOnly(log, obs, event, phase) ==
    log \o [i \in DOMAIN obs \cap {1} |-> [observer |-> obs[i], event |-> event, at |-> phase]]

\* notify_observers: one on_event call per observer, in the order of the
\* observers vector; `phase` is current_phase at the time of the calls
NotifyObservers(log, obs, event, phase) ==
    log \o [i \in DOMAIN obs |-> [observer |-> obs[i], event |-> event, at |-> phase]]

\* LookupAction settling for any action of the phase
LookupActionAnyKind(cfg, phase, action) ==
    LET p == Get(cfg.phases, phase) IN
    IF IsSome(p) /\ DOMAIN Unwrap(p).actions # {}
    THEN Some(Unwrap(p).actions[CHOOSE k \in DOMAIN Unwrap(p).actions : TRUE])
    ELSE None

\* the lookup chain of is_action_allowed
LookupAction(cfg, phase, action) ==
    LET p == Get(cfg.phases, phase) IN
    IF IsSome(p) THEN Get(Unwrap(p).actions, action) ELSE None

\* LookupNextPhase falling back to the default phase
LookupNextPhaseOrDefault(cfg, phase, action, result) ==
    LET a == LookupAction(cfg, phase, action)
        found == IF IsSome(a) THEN Get(Unwrap(a).result, result) ELSE None
    IN  IF IsSome(found) THEN found ELSE Some(cfg.default_phase)

\* the lookup chain of execute_action
LookupNextPhase(cfg, phase, action, result) ==
    LET a == LookupAction(cfg, phase, action) IN
    IF IsSome(a) THEN Get(Unwrap(a).result, result) ELSE None

\* LookupConstraints treating an absent action as one without constraints
LookupConstraintsOrEmpty(cfg, phase, action) ==
    Some(<<>>)

\* the lookup chain of check_constraints
LookupConstraints(cfg, phase, action) ==
    LET a == LookupAction(cfg, phase, action) IN
    IF IsSome(a) THEN Some(Unwrap(a).constraints) ELSE None

\* LookupKeys reading the default phase instead of the current one
LookupKeysOfDefault(cfg, phase) ==
    LET p == Get(cfg.phases, cfg.default_phase) IN
    IF IsSome(p) THEN Some(DOMAIN Unwrap(p).actions) ELSE None

\* the lookup chain of available_actions: the key set of the phase's map
LookupKeys(cfg, phase) ==
    LET p == Get(cfg.phases, phase) IN
    IF IsSome(p) THEN Some(DOMAIN Unwrap(p).actions) ELSE None

\* what `last` records about a call
Call(op, action, result, ret) ==
    [op |-> op, action |-> action, result |-> result, ret |-> ret,
     phase |-> current_phase, observers |-> observers, seen |-> Len(delivered),
     first |-> last.op = "new"]

NoArg == "-"

\* no rule set is being validated
NoRuleSet == [id |-> "", phases |-> <<>>]
NotValidated == None
\* load_ron has not been called
NotLoaded == None
\* no board is being validated
NoBoard == [fields |-> {}, sets |-> {}, relations |-> <<>>]
NotChecked == None

Init ==
    \E d \in Docs :
        LET engine == New(Deserialize(d)) IN
        /\ doc = d
        /\ config = engine.config
        /\ current_phase = engine.current_phase
        /\ observers = engine.observers
        /\ delivered = <<>>
        /\ last = [op |-> "new", action |-> NoArg, result |-> NoArg, ret |-> Unit,
                   phase |-> engine.current_phase, observers |-> <<>>, seen |-> 0,
                   first |-> FALSE]
        /\ ruleset = NoRuleSet
        /\ verdict = NotValidated
        /\ loaded = NotLoaded
        /\ board = NoBoard
        /\ checked = NotChecked

\* a caller starts an operation
CanCall == Len(delivered) < MaxDelivered

\* add_observer putting the new handle in front of the others
add_observer_front(observer) ==
    /\ Len(delivered) < MaxDelivered
    /\ Len(observers) < MaxObservers
    /\ observer \notin Range(observers)
    /\ observers' = <<observer>> \o observers
    /\ last' = Call("add_observer", observer, NoArg, Unit)
    /\ UNCHANGED <<board, checked, loaded, ruleset, verdict, doc, config, current_phase, delivered>>

add_observer(observer) ==
    /\ CanCall
    /\ Len(observers) < MaxObservers
    /\ observer \notin Range(observers)
    /\ observers' = Append(observers, observer)
    /\ last' = Call("add_observer", observer, NoArg, Unit)
    /\ UNCHANGED <<board, checked, loaded, ruleset, verdict, doc, config, current_phase, delivered>>

\* is_action_allowed announcing its verdict to the observers
is_action_allowed_notifying(action) ==
    /\ Len(delivered) < MaxDelivered
    /\ LET allowed == IsSome(LookupAction(config, current_phase, action))
       IN  /\ delivered' = delivered \o
                  [i \in DOMAIN observers |->
                      [observer |-> observers[i],
                       event |-> ConstraintChecked(current_phase, action, allowed),
                       at |-> current_phase]]
           /\ last' = Call("is_action_allowed", action, NoArg, allowed)
    /\ UNCHANGED <<board, checked, loaded, ruleset, verdict, doc, config, current_phase, observers>>

is_action_allowed(action) ==
    /\ CanCall
    /\ last' = Call("is_action_allowed", action, NoArg,
                    IsSome(LookupAction(config, current_phase, action)))
    /\ UNCHANGED <<board, checked, loaded, ruleset, verdict, doc, config, current_phase, observers, delivered>>

\* check_constraints notifying before it resolves the action
check_constraints_notify_first(action) ==
    /\ Len(delivered) < MaxDelivered
    /\ LET found == IsSome(LookupAction(config, current_phase, action))
       IN  /\ delivered' = delivered \o
                  [i \in DOMAIN observers |->
                      [observer |-> observers[i],
                       event |-> ConstraintChecked(current_phase, action, found),
                       at |-> current_phase]]
           /\ last' = Call("check_constraints", action, NoArg,
                           IF found THEN Ok(TRUE) ELSE Err(ActionNotFound))
    /\ UNCHANGED <<board, checked, loaded, ruleset, verdict, doc, config, current_phase, observers>>

check_constraints(action) ==
    /\ CanCall
    /\ LET constraints == LookupConstraints(config, current_phase, action) IN
       IF ~IsSome(constraints)
       THEN /\ last' = Call("check_constraints", action, NoArg, Err(ActionNotFound))
            /\ UNCHANGED <<board, checked, loaded, ruleset, verdict, doc, config, current_phase, observers, delivered>>
       ELSE LET success == TRUE IN
            /\ delivered' = NotifyObservers(delivered, observers,
                               ConstraintChecked(current_phase, action, success),
                               current_phase)
            /\ last' = Call("check_constraints", action, NoArg, Ok(success))
            /\ UNCHANGED <<board, checked, loaded, ruleset, verdict, doc, config, current_phase, observers>>

\* execute_action assigning current_phase before the first notification
execute_action_mutate_first(action, result) ==
    /\ Len(delivered) < MaxDelivered
    /\ LET next_phase == LookupNextPhase(config, current_phase, action, result) IN
       IF ~IsSome(next_phase)
       THEN /\ last' = Call("execute_action", action, result, Err(InvalidActionOrResult))
            /\ UNCHANGED <<board, checked, loaded, ruleset, verdict, doc, config, current_phase, observers, delivered>>
       ELSE LET old_phase == current_phase
                new_phase == Unwrap(next_phase)
                fanout(event) == [i \in DOMAIN observers |->
                                    [observer |-> observers[i], event |-> event,
                                     at |-> new_phase]]
            IN
            /\ current_phase' = new_phase
            /\ delivered' = delivered \o fanout(ActionExecuted(new_phase, action, result))
                                      \o fanout(PhaseChanged(old_phase, new_phase))
            /\ last' = Call("execute_action", action, result, Ok(Unit))
            /\ UNCHANGED <<board, checked, loaded, ruleset, verdict, doc, config, observers>>

\* execute_action falling back to the default phase when the lookup fails
execute_action_reset_on_error(action, result) ==
    /\ Len(delivered) < MaxDelivered
    /\ LET next_phase == LookupNextPhase(config, current_phase, action, result) IN
       IF ~IsSome(next_phase)
       THEN /\ current_phase' = config.default_phase
            /\ last' = Call("execute_action", action, result, Err(InvalidActionOrResult))
            /\ UNCHANGED <<board, checked, loaded, ruleset, verdict, doc, config, observers, delivered>>
       ELSE LET old_phase == current_phase
                d1 == NotifyObservers(delivered, observers,
                         ActionExecuted(current_phase, action, result), current_phase)
                new_phase == Unwrap(next_phase)
            IN
            /\ current_phase' = new_phase
            /\ delivered' = NotifyObservers(d1, observers,
                               PhaseChanged(old_phase, new_phase), new_phase)
            /\ last' = Call("execute_action", action, result, Ok(Unit))
            /\ UNCHANGED <<board, checked, loaded, ruleset, verdict, doc, config, observers>>

\* execute_action announcing PhaseChanged only when the phase differs
execute_action_quiet_self_loop(action, result) ==
    /\ Len(delivered) < MaxDelivered
    /\ LET next_phase == LookupNextPhase(config, current_phase, action, result) IN
       IF ~IsSome(next_phase)
       THEN /\ last' = Call("execute_action", action, result, Err(InvalidActionOrResult))
            /\ UNCHANGED <<board, checked, loaded, ruleset, verdict, doc, config, current_phase, observers, delivered>>
       ELSE LET old_phase == current_phase
                d1 == NotifyObservers(delivered, observers,
                         ActionExecuted(current_phase, action, result), current_phase)
                new_phase == Unwrap(next_phase)
            IN
            /\ current_phase' = new_phase
            /\ delivered' = IF new_phase = old_phase THEN d1
                             ELSE NotifyObservers(d1, observers,
                                     PhaseChanged(old_phase, new_phase), new_phase)
            /\ last' = Call("execute_action", action, result, Ok(Unit))
            /\ UNCHANGED <<board, checked, loaded, ruleset, verdict, doc, config, observers>>

execute_action(action, result) ==
    /\ CanCall
    /\ LET next_phase == LookupNextPhase(config, current_phase, action, result) IN
       IF ~IsSome(next_phase)
       THEN /\ last' = Call("execute_action", action, result, Err(InvalidActionOrResult))
            /\ UNCHANGED <<board, checked, loaded, ruleset, verdict, doc, config, current_phase, observers, delivered>>
       ELSE LET old_phase == current_phase
                d1 == NotifyObservers(delivered, observers,
                         ActionExecuted(current_phase, action, result), current_phase)
                new_phase == Unwrap(next_phase)
            IN
            /\ current_phase' = new_phase
            /\ delivered' = NotifyObservers(d1, observers,
                               PhaseChanged(old_phase, new_phase), new_phase)
            /\ last' = Call("execute_action", action, result, Ok(Unit))
            /\ UNCHANGED <<board, checked, loaded, ruleset, verdict, doc, config, observers>>

\* HashMap::keys iterates in an order the map does not specify
available_actions ==
    /\ CanCall
    /\ LET keys == LookupKeys(config, current_phase) IN
       \E order \in (IF IsSome(keys) THEN Orderings(Unwrap(keys)) ELSE {<<>>}) :
          last' = Call("available_actions", NoArg, NoArg, order)
    /\ UNCHANGED <<board, checked, loaded, ruleset, verdict, doc, config, current_phase, observers, delivered>>

get_current_phase ==
    /\ CanCall
    /\ last' = Call("current_phase", NoArg, NoArg, current_phase)
    /\ UNCHANGED <<board, checked, loaded, ruleset, verdict, doc, config, current_phase, observers, delivered>>

Next ==
    \/ \E o \in ObserverIds : add_observer(o)
    \/ \E a \in ActionKinds : is_action_allowed(a)
    \/ \E a \in ActionKinds : check_constraints(a)
    \/ \E a \in ActionKinds, r \in ResultLabels : execute_action(a, r)
    \/ available_actions
    \/ get_current_phase

Spec == Init /\ [][Next]_vars

(***************************************************************************)
(* What the document declares, read off the document itself.               *)
(***************************************************************************)
DeclaredPhases == {doc.phases[i].id : i \in DOMAIN doc.phases}

\* the action entries the document lists under phase id p
DeclaredActions(p) ==
    UNION {Range(doc.phases[i].actions) : i \in {i \in DOMAIN doc.phases : doc.phases[i].id = p}}

DeclaredKinds(p) == {a.kind : a \in DeclaredActions(p)}

Declares(p, kind) == kind \in DeclaredKinds(p)

\* the <<label, next phase id>> pairs the document lists for kind under p
DeclaredResults(p, kind) ==
    UNION {{<<l, a.result[l]>> : l \in DOMAIN a.result} :
              a \in {a \in DeclaredActions(p) : a.kind = kind}}

DeclaredLabels(p, kind) == {r[1] : r \in DeclaredResults(p, kind)}

\* the kinds of phase p in the order the document lists them
DeclaredOrder(p) ==
    LET i == CHOOSE i \in DOMAIN doc.phases : doc.phases[i].id = p
    IN  [j \in DOMAIN doc.phases[i].actions |-> doc.phases[i].actions[j].kind]

\* the on_event calls made by the most recent call
NewDeliveries == SubSeq(delivered, last.seen + 1, Len(delivered))

\* those of them made on observer o
ReceivedBy(o) == SelectSeq(NewDeliveries, LAMBDA d : d.observer = o)

\* the most recent call left the engine as it found it and called no observer
NothingHappened ==
    /\ current_phase = last.phase
    /\ observers = last.observers
    /\ NewDeliveries = <<>>

(***************************************************************************)
(* C1.  When the current phase declares the action and the action's        *)
(* result map contains the label, execute_action returns Ok, current_phase *)
(* becomes the mapped phase id, and every registered observer is called    *)
(* exactly twice: first with ActionExecuted{old phase, action, result}     *)
(* while current_phase is still the old phase, then with                   *)
(* PhaseChanged{old, new} once current_phase is the new phase.             *)
(***************************************************************************)
C1_ExecuteSuccess ==
    (/\ last.op = "execute_action"
     /\ Declares(last.phase, last.action)
     /\ last.result \in DeclaredLabels(last.phase, last.action))
    =>
    /\ last.ret = Ok(Unit)
    /\ <<last.result, current_phase>> \in DeclaredResults(last.phase, last.action)
    /\ Len(NewDeliveries) = 2 * Len(observers)
    /\ \A o \in Range(observers) :
          ReceivedBy(o) =
             << [observer |-> o,
                 event |-> ActionExecuted(last.phase, last.action, last.result),
                 at |-> last.phase],
                [observer |-> o,
                 event |-> PhaseChanged(last.phase, current_phase),
                 at |-> current_phase] >>

C1_Witness ==
    /\ last.op = "execute_action"
    /\ last.ret = Ok(Unit)
    /\ Len(observers) = 2
    /\ last.phase = "setup"
    /\ current_phase = "place"

(***************************************************************************)
(* C2 as stated.  execute_action with a kind the current phase does not    *)
(* declare returns the error ActionNotFound, leaves current_phase          *)
(* unchanged and calls no observer.                                        *)
(***************************************************************************)
C2_AsStated ==
    (last.op = "execute_action" /\ ~Declares(last.phase, last.action))
    => (last.ret = Err(ActionNotFound) /\ NothingHappened)

(***************************************************************************)
(* C2 amended.  execute_action with a kind the current phase does not      *)
(* declare returns the error "Invalid action or result", the same error    *)
(* an unknown result label gets, leaves current_phase unchanged and calls  *)
(* no observer.                                                            *)
(***************************************************************************)
C2_UndeclaredAction ==
    (last.op = "execute_action" /\ ~Declares(last.phase, last.action))
    => (last.ret = Err(InvalidActionOrResult) /\ NothingHappened)

C2_Witness ==
    /\ last.op = "execute_action"
    /\ last.phase \in DeclaredPhases
    /\ ~Declares(last.phase, last.action)
    /\ Len(observers) > 0

(***************************************************************************)
(* C3.  execute_action with a kind the current phase declares and a label  *)
(* its result map lacks returns InvalidActionOrResult, leaves              *)
(* current_phase unchanged and calls no observer.                          *)
(***************************************************************************)
C3_UnknownResult ==
    (/\ last.op = "execute_action"
     /\ Declares(last.phase, last.action)
     /\ last.result \notin DeclaredLabels(last.phase, last.action))
    => (last.ret = Err(InvalidActionOrResult) /\ NothingHappened)

C3_Witness ==
    /\ last.op = "execute_action"
    /\ Declares(last.phase, last.action)
    /\ DeclaredLabels(last.phase, last.action) # {}
    /\ last.result \notin DeclaredLabels(last.phase, last.action)
    /\ Len(observers) > 0

(***************************************************************************)
(* C4 as stated.  In every reachable state current_phase is the id of a    *)
(* phase the configuration declares.                                       *)
(***************************************************************************)
C4_AsStated == current_phase \in DeclaredPhases

(***************************************************************************)
(* C5.  Right after construction current_phase is the configuration's      *)
(* default_phase, no observer has been called, and the accessor            *)
(* current_phase() returns the field.                                      *)
(***************************************************************************)
C5_AfterConstruction ==
    /\ last.op = "new" =>
          (current_phase = doc.default_phase /\ delivered = <<>> /\ observers = <<>>)
    /\ (last.op = "current_phase" /\ last.first) =>
          (last.ret = doc.default_phase /\ delivered = <<>>)

C5_Witness ==
    /\ last.op = "current_phase"
    /\ last.first
    /\ last.ret = "place"

(***************************************************************************)
(* C6.  is_action_allowed(action) returns true exactly when a declared     *)
(* phase has the id current_phase and declares an action of that kind; in  *)
(* particular false when current_phase names no declared phase.            *)
(***************************************************************************)
C6_AllowedIffDeclared ==
    last.op = "is_action_allowed" =>
        /\ last.ret \in BOOLEAN
        /\ last.ret <=> (\E i \in DOMAIN doc.phases :
                            /\ doc.phases[i].id = last.phase
                            /\ \E j \in DOMAIN doc.phases[i].actions :
                                  doc.phases[i].actions[j].kind = last.action)

C6_Witness ==
    /\ last.op = "is_action_allowed"
    /\ last.ret = TRUE
    /\ \E k \in ActionKinds : ~Declares(last.phase, k)

(***************************************************************************)
(* C7.  A call of is_action_allowed leaves current_phase, the              *)
(* configuration and the observer list as they were and calls no           *)
(* observer.                                                               *)
(***************************************************************************)
C7_AllowedIsPure ==
    [][last'.op = "is_action_allowed"
          => UNCHANGED <<config, current_phase, observers, delivered>>]_vars

C7_Witness ==
    /\ last.op = "is_action_allowed"
    /\ ~last.first
    /\ Len(observers) > 0
    /\ Len(delivered) > 0

(***************************************************************************)
(* C8 as stated.  Every call of check_constraints, whether it returns a    *)
(* result or the ActionNotFound error, calls every observer with a         *)
(* ConstraintChecked event for the phase and action before it returns.     *)
(***************************************************************************)
C8_AsStated ==
    last.op = "check_constraints" =>
        \A o \in Range(observers) :
           \E i \in DOMAIN NewDeliveries :
              /\ NewDeliveries[i].observer = o
              /\ NewDeliveries[i].event.type = "ConstraintChecked"
              /\ NewDeliveries[i].event.phase = last.phase
              /\ NewDeliveries[i].event.action = last.action

(***************************************************************************)
(* C8 amended.  A call of check_constraints that returns a result calls    *)
(* every observer with ConstraintChecked{phase, action, success} before    *)
(* it returns, success being the returned value; a call that fails with    *)
(* ActionNotFound calls no observer.                                       *)
(***************************************************************************)
C8_CheckedOnResultOnly ==
    last.op = "check_constraints" =>
        IF last.ret.ok
        THEN \A o \in Range(observers) :
                \E i \in DOMAIN NewDeliveries :
                   /\ NewDeliveries[i].observer = o
                   /\ NewDeliveries[i].event =
                         ConstraintChecked(last.phase, last.action, last.ret.val)
        ELSE /\ last.ret = Err(ActionNotFound)
             /\ NewDeliveries = <<>>

C8_Witness ==
    /\ last.op = "check_constraints"
    /\ ~last.ret.ok
    /\ Len(observers) = 2
    /\ Len(delivered) > 0

(***************************************************************************)
(* C9.  check_constraints with a kind the current phase does not declare   *)
(* fails with ActionNotFound and leaves current_phase unchanged; with a    *)
(* declared kind it returns a boolean, not an error.                       *)
(***************************************************************************)
C9_CheckResolvesAction ==
    last.op = "check_constraints" =>
        IF Declares(last.phase, last.action)
        THEN last.ret.ok /\ last.ret.val \in BOOLEAN
        ELSE last.ret = Err(ActionNotFound) /\ current_phase = last.phase

C9_Witness ==
    /\ last.op = "check_constraints"
    /\ last.phase \in DeclaredPhases
    /\ ~Declares(last.phase, last.action)
    /\ Len(observers) > 0

(***************************************************************************)
(* C10 as stated.  available_actions() returns the kinds the current       *)
(* phase declares, each once, in the order the phase declares them.        *)
(***************************************************************************)
C10_AsStated ==
    (last.op = "available_actions" /\ last.phase \in DeclaredPhases)
    => last.ret = DeclaredOrder(last.phase)

(***************************************************************************)
(* C10 amended.  available_actions() returns the kinds the current phase   *)
(* declares, each once, in an order the engine does not fix.               *)
(***************************************************************************)
C10_AvailableKinds ==
    (last.op = "available_actions" /\ last.phase \in DeclaredPhases)
    => /\ Range(last.ret) = DeclaredKinds(last.phase)
       /\ \A i, j \in DOMAIN last.ret : last.ret[i] = last.ret[j] => i = j

C10_Witness ==
    /\ last.op = "available_actions"
    /\ last.phase \in DeclaredPhases
    /\ Len(last.ret) = 2
    /\ last.ret # DeclaredOrder(last.phase)
    /\ current_phase # doc.default_phase

(***************************************************************************)
(* C11.  When current_phase is the id of no declared phase,                *)
(* available_actions() returns the empty sequence, and the engine state    *)
(* is as before the call.                                                  *)
(***************************************************************************)
C11_AvailableOfUnknownPhase ==
    (last.op = "available_actions" /\ last.phase \notin DeclaredPhases)
    => (last.ret = <<>> /\ NothingHappened /\ config = Deserialize(doc))

C11_Witness ==
    /\ last.op = "available_actions"
    /\ last.phase \notin DeclaredPhases
    /\ last.phase # doc.default_phase
    /\ DeclaredKinds(doc.default_phase) # {}

\* how many events the most recent call emitted: two on the success path of
\* execute_action, one on the success path of check_constraints
NumEmitted ==
    IF last.op = "execute_action" /\ last.ret.ok THEN 2
    ELSE IF last.op = "check_constraints" /\ last.ret.ok THEN 1
    ELSE 0

(***************************************************************************)
(* C12.  Every event a call emits is delivered to every registered         *)
(* observer exactly once, in the order the observers were registered, and  *)
(* all observers have received it before the next event of the call is     *)
(* delivered to anyone: the on_event calls of an operation are one block   *)
(* per event, each block running through the observers vector in order.    *)
(***************************************************************************)
C12_FanOutInOrder ==
    LET n == Len(observers) IN
    last.op # "add_observer" =>
        /\ Len(NewDeliveries) = NumEmitted * n
        /\ \A k \in DOMAIN NewDeliveries :
              LET pos == ((k - 1) % n) + 1
                  blockStart == k - pos + 1
              IN  /\ NewDeliveries[k].observer = observers[pos]
                  /\ NewDeliveries[k].event = NewDeliveries[blockStart].event
        /\ \A k \in DOMAIN NewDeliveries :
              (k + n) \in DOMAIN NewDeliveries
                  => NewDeliveries[k].event # NewDeliveries[k + n].event

C12_Witness ==
    /\ last.op = "execute_action"
    /\ last.ret = Ok(Unit)
    /\ observers = <<"o2", "o1">>
    /\ Len(NewDeliveries) = 4

\* everything observer o has received, in order
Stream(o) == SelectSeq(delivered, LAMBDA d : d.observer = o)

(***************************************************************************)
(* C13.  In the stream of events each observer has received, every         *)
(* ActionExecuted is immediately followed by a PhaseChanged whose `from`   *)
(* is the ActionExecuted's phase, and every PhaseChanged is immediately    *)
(* preceded by such an ActionExecuted.                                     *)
(***************************************************************************)
C13_ExecutedThenChanged ==
    \A o \in ObserverIds :
        LET s == Stream(o) IN
        \A i \in DOMAIN s :
            /\ s[i].event.type = "ActionExecuted" =>
                  /\ i + 1 \in DOMAIN s
                  /\ s[i + 1].event.type = "PhaseChanged"
                  /\ s[i + 1].event.from = s[i].event.phase
            /\ s[i].event.type = "PhaseChanged" =>
                  /\ i - 1 \in DOMAIN s
                  /\ s[i - 1].event.type = "ActionExecuted"
                  /\ s[i - 1].event.phase = s[i].event.from

C13_Witness ==
    \E o \in ObserverIds :
        LET s == Stream(o) IN
        /\ Len(s) = 5
        /\ s[3].event.type = "ConstraintChecked"
        /\ s[2].event.from # s[2].event.to

(***************************************************************************)
(* RuleSet validation (base/src/rule.rs).                                  *)
(*                                                                         *)
(* A RuleSet is [id, phases]; a PhaseDefinition is [id, actions,           *)
(* next_phase], next_phase an Option; an ActionDefinition is [kind,        *)
(* constraints, result], result being [state_changes]; a Constraint is     *)
(* [field, value]; a StateChange is tagged by `type`.  validate returns    *)
(* Ok(()) or Err(DataError::Validation(message)); a message is kept as its *)
(* format string and the values formatted into it.                         *)
(***************************************************************************)
\* a rule set lists at most MaxPhases phases
MaxPhases == 2
\* a board holds at most MaxEntries fields and at most MaxEntries sets
MaxEntries == 2

\* strings that are empty once trimmed, among the strings of the model (no
\* other string of the model starts or ends with white space)
BlankStrings == {"", " "}

\* s.is_empty(), a check that does not trim
IsEmptyUntrimmed(s) == s = ""

\* s.trim().is_empty()
TrimIsEmpty(s) == s \in BlankStrings

\* the whitelist of action kinds
AllowedKinds ==
    {"assign_fields", "assign_goals", "place_figure", "calculate_gain", "gain_figures",
     "encounter", "change_ownership", "redistribute_figures", "check_card_reward",
     "draw_field_card", "end_phase"}

\* DataError::Validation(format!(template, args...))
Validation(template, args) == [template |-> template, args |-> args]

EmptyIdError == Validation("RuleSet id must not be empty", <<>>)
DuplicatePhaseIdError(id) == Validation("Duplicate phase id: {}", <<id>>)
UnknownPhaseReferenceError(from, to) ==
    Validation("Phase '{}' references unknown next_phase: {}", <<from, to>>)
InvalidActionKindError(phase_id, kind) ==
    Validation("Invalid action kind in phase '{}': '{}'", <<phase_id, kind>>)
EmptyConstraintFieldError(kind) ==
    Validation("Empty constraint field in action '{}'", <<kind>>)
MoveSameFieldError == Validation("MoveFigures: from and to must differ", <<>>)
MoveZeroCountError == Validation("MoveFigures: count must be > 0", <<>>)
ChangeOwnerUnsetError == Validation("ChangeOwner: field_id and new_owner must be set", <<>>)

\* StateChange
MoveFigures(from, to, count) ==
    [type |-> "MoveFigures", from |-> from, to |-> to, count |-> count]
ChangeOwner(field_id, new_owner) ==
    [type |-> "ChangeOwner", field_id |-> field_id, new_owner |-> new_owner]

\* the first loop: phase ids are inserted into `seen` until one is there
\* already
RECURSIVE CollectPhaseIds(_, _, _)
CollectPhaseIds(phases, i, seen) ==
    IF i > Len(phases) THEN Ok(seen)
    ELSE IF phases[i].id \in seen THEN Err(DuplicatePhaseIdError(phases[i].id))
    ELSE CollectPhaseIds(phases, i + 1, seen \cup {phases[i].id})

\* CheckStateChange without the count check
CheckStateChangeNoCount(change) ==
    IF change.type = "MoveFigures"
    THEN IF change.from = change.to THEN Err(MoveSameFieldError) ELSE Ok(Unit)
    ELSE IF TrimIsEmpty(change.field_id) \/ TrimIsEmpty(change.new_owner)
         THEN Err(ChangeOwnerUnsetError)
         ELSE Ok(Unit)

\* one arm of the match over a StateChange
CheckStateChange(change) ==
    IF change.type = "MoveFigures"
    THEN IF change.from = change.to THEN Err(MoveSameFieldError)
         ELSE IF change.count = 0 THEN Err(MoveZeroCountError)
         ELSE Ok(Unit)
    ELSE IF TrimIsEmpty(change.field_id) \/ TrimIsEmpty(change.new_owner)
         THEN Err(ChangeOwnerUnsetError)
         ELSE Ok(Unit)

\* the loop over action.result.state_changes
RECURSIVE CheckStateChanges(_, _)
CheckStateChanges(changes, i) ==
    IF i > Len(changes) THEN Ok(Unit)
    ELSE LET r == CheckStateChange(changes[i]) IN
         IF ~r.ok THEN r ELSE CheckStateChanges(changes, i + 1)

\* the loop over action.constraints
RECURSIVE CheckConstraintFields(_, _, _)
CheckConstraintFields(constraints, i, kind) ==
    IF i > Len(constraints) THEN Ok(Unit)
    ELSE IF TrimIsEmpty(constraints[i].field) THEN Err(EmptyConstraintFieldError(kind))
    ELSE CheckConstraintFields(constraints, i + 1, kind)

\* CheckAction without the whitelist check
CheckActionAnyKind(phase_id, action) ==
    LET c == CheckConstraintFields(action.constraints, 1, action.kind) IN
    IF ~c.ok THEN c ELSE CheckStateChanges(action.result.state_changes, 1)

\* the body of the loop over phase.actions
CheckAction(phase_id, action) ==
    IF action.kind \notin AllowedKinds
    THEN Err(InvalidActionKindError(phase_id, action.kind))
    ELSE LET c == CheckConstraintFields(action.constraints, 1, action.kind) IN
         IF ~c.ok THEN c ELSE CheckStateChanges(action.result.state_changes, 1)

\* the loop over phase.actions
RECURSIVE CheckActions(_, _)
CheckActions(phase, i) ==
    IF i > Len(phase.actions) THEN Ok(Unit)
    ELSE LET r == CheckAction(phase.id, phase.actions[i]) IN
         IF ~r.ok THEN r ELSE CheckActions(phase, i + 1)

\* CheckNextPhase accepting any reference
CheckNextPhaseUnchecked(phase, seen) ==
    Ok(Unit)

\* the next_phase check at the head of the second loop's body
CheckNextPhase(phase, seen) ==
    IF IsSome(phase.next_phase) /\ Unwrap(phase.next_phase) \notin seen
    THEN Err(UnknownPhaseReferenceError(phase.id, Unwrap(phase.next_phase)))
    ELSE Ok(Unit)

\* the second loop: per phase, its next_phase and then its actions
\* CheckPhases resolving each next_phase against the ids of the phases up to
\* and including its own
RECURSIVE CheckPhasesSeenSoFar(_, _, _)
CheckPhasesSeenSoFar(phases, i, seen) ==
    IF i > Len(phases) THEN Ok(Unit)
    ELSE LET n == CheckNextPhase(phases[i], {phases[k].id : k \in 1..i}) IN
         IF ~n.ok THEN n
         ELSE LET a == CheckActions(phases[i], 1) IN
              IF ~a.ok THEN a ELSE CheckPhasesSeenSoFar(phases, i + 1, seen)

RECURSIVE CheckPhases(_, _, _)
CheckPhases(phases, i, seen) ==
    IF i > Len(phases) THEN Ok(Unit)
    ELSE LET n == CheckNextPhase(phases[i], seen) IN
         IF ~n.ok THEN n
         ELSE LET a == CheckActions(phases[i], 1) IN
              IF ~a.ok THEN a ELSE CheckPhases(phases, i + 1, seen)

\* a loop that checks the next_phase of every phase and nothing else
RECURSIVE CheckNextPhases(_, _, _)
CheckNextPhases(phases, i, seen) ==
    IF i > Len(phases) THEN Ok(Unit)
    ELSE LET n == CheckNextPhase(phases[i], seen) IN
         IF ~n.ok THEN n ELSE CheckNextPhases(phases, i + 1, seen)

\* Validate with the next_phase checks of all phases done in a loop of their
\* own, ahead of the loop over the actions
ValidateReferencesFirst(rs) ==
    IF TrimIsEmpty(rs.id) THEN Err(EmptyIdError)
    ELSE LET ids == CollectPhaseIds(rs.phases, 1, {}) IN
         IF ~ids.ok THEN ids
         ELSE LET n == CheckNextPhases(rs.phases, 1, ids.val) IN
              IF ~n.ok THEN n ELSE CheckPhases(rs.phases, 1, ids.val)

\* Validate without the duplicate check
ValidateNoDuplicateCheck(rs) ==
    IF TrimIsEmpty(rs.id) THEN Err(EmptyIdError)
    ELSE CheckPhases(rs.phases, 1, {rs.phases[i].id : i \in DOMAIN rs.phases})

\* RuleSet::validate
Validate(rs) ==
    IF TrimIsEmpty(rs.id) THEN Err(EmptyIdError)
    ELSE LET ids == CollectPhaseIds(rs.phases, 1, {}) IN
         IF ~ids.ok THEN ids ELSE CheckPhases(rs.phases, 1, ids.val)

(***************************************************************************)
(* The rule sets validate is applied to.                                   *)
(***************************************************************************)
RuleSetIds == {"", " ", "teg"}
RulePhaseIds == {"setup", "place"}
\* "limbo" is never the id of a phase
NextPhases == {None, Some("place"), Some("limbo")}

RuleAction(kind, constraints, changes) ==
    [kind |-> kind, constraints |-> constraints, result |-> [state_changes |-> changes]]

GoodAction ==
    RuleAction("end_phase", << [field |-> "min", value |-> 1] >>,
               << MoveFigures("A", "B", 1), ChangeOwner("f", "p") >>)
BadKindAction == RuleAction("attack", <<>>, <<>>)
BlankFieldAction == RuleAction("place_figure", << [field |-> " ", value |-> TRUE] >>, <<>>)
SelfMoveAction == RuleAction("encounter", <<>>, << MoveFigures("A", "A", 5) >>)
ZeroMoveAction == RuleAction("encounter", <<>>, << MoveFigures("A", "B", 0) >>)
BlankOwnerAction == RuleAction("change_ownership", <<>>, << ChangeOwner(" ", "p") >>)
NoOwnerAction == RuleAction("change_ownership", <<>>, << ChangeOwner("f", "") >>)
AllBadAction ==
    RuleAction("attack", << [field |-> "", value |-> 1] >>, << MoveFigures("B", "B", 0) >>)

\* the action lists the phases are built from
ActionLists ==
    { <<>>, <<GoodAction>>, <<BadKindAction>>, <<BlankFieldAction>>, <<SelfMoveAction>>,
      <<ZeroMoveAction>>, <<BlankOwnerAction>>, <<NoOwnerAction>>, <<AllBadAction>>,
      <<GoodAction, SelfMoveAction, BadKindAction>> }

PhaseDefinitions ==
    {[id |-> i, actions |-> a, next_phase |-> n] :
        i \in RulePhaseIds, a \in ActionLists, n \in NextPhases}

\* no engine exists while a rule set is validated
InitValidate ==
    /\ \E i \in RuleSetIds, n \in 0..MaxPhases :
          \E p \in [1..n -> PhaseDefinitions] :
             ruleset = [id |-> i, phases |-> p]
    /\ verdict = NotValidated
    /\ loaded = NotLoaded
    /\ board = NoBoard
    /\ checked = NotChecked
    /\ doc = <<>>
    /\ config = <<>>
    /\ current_phase = ""
    /\ observers = <<>>
    /\ delivered = <<>>
    /\ last = <<>>

\* a call of ruleset.validate()
validate ==
    /\ verdict' = Some(Validate(ruleset))
    /\ UNCHANGED <<board, checked, loaded, ruleset, doc, config, current_phase, observers, delivered, last>>

NextValidate == validate

SpecValidate == InitValidate /\ [][NextValidate]_vars

(***************************************************************************)
(* What a rule set contains, read off the rule set itself.                 *)
(***************************************************************************)
Validated == IsSome(verdict)
Returned == Unwrap(verdict)

Phases == ruleset.phases
RulePhaseIdSet == {Phases[i].id : i \in DOMAIN Phases}

\* positions <<i, j>> of the actions: action j of phase i
ActionPositions ==
    UNION {{<<i, j>> : j \in DOMAIN Phases[i].actions} : i \in DOMAIN Phases}
ActionAt(pos) == Phases[pos[1]].actions[pos[2]]

\* pos comes before (or is) other in declaration order
NotAfter(pos, other) == pos[1] < other[1] \/ (pos[1] = other[1] /\ pos[2] <= other[2])
FirstPosition(S) == CHOOSE pos \in S : \A other \in S : NotAfter(pos, other)
FirstIndex(S) == CHOOSE i \in S : \A k \in S : i <= k

\* s consists of white space only
IsBlank(s) == s = "" \/ s = " "

BlankId == IsBlank(ruleset.id)
DuplicateAt(i) == \E k \in 1..(i - 1) : Phases[k].id = Phases[i].id
DuplicateIndices == {i \in DOMAIN Phases : DuplicateAt(i)}
UnknownNextAt(i) ==
    /\ Phases[i].next_phase # None
    /\ \A k \in DOMAIN Phases : Phases[k].id # Phases[i].next_phase[1]
UnknownNextIndices == {i \in DOMAIN Phases : UnknownNextAt(i)}

KindOk(a) == a.kind \in AllowedKinds
FieldsOk(a) == \A c \in DOMAIN a.constraints : ~IsBlank(a.constraints[c].field)

\* the invariant of a StateChange, blank meaning empty once trimmed
ChangeOk(c) ==
    IF c.type = "MoveFigures"
    THEN c.from # c.to /\ c.count > 0
    ELSE ~IsBlank(c.field_id) /\ ~IsBlank(c.new_owner)
BadChanges(a) ==
    {c \in DOMAIN a.result.state_changes : ~ChangeOk(a.result.state_changes[c])}
ChangesOk(a) == BadChanges(a) = {}

ActionClean(a) == KindOk(a) /\ FieldsOk(a) /\ ChangesOk(a)
PhaseClean(i) ==
    /\ ~UnknownNextAt(i)
    /\ \A j \in DOMAIN Phases[i].actions : ActionClean(Phases[i].actions[j])

StateChangeErrors == {MoveSameFieldError, MoveZeroCountError, ChangeOwnerUnsetError}

\* the error a violating StateChange is reported with
ChangeViolation(c) ==
    IF c.type = "ChangeOwner" THEN ChangeOwnerUnsetError
    ELSE IF c.from = c.to THEN MoveSameFieldError
    ELSE MoveZeroCountError

\* the first violation inside one action: kind, then constraint fields, then
\* state changes
ActionViolation(phase_id, a) ==
    IF ~KindOk(a) THEN InvalidActionKindError(phase_id, a.kind)
    ELSE IF ~FieldsOk(a) THEN EmptyConstraintFieldError(a.kind)
    ELSE ChangeViolation(a.result.state_changes[FirstIndex(BadChanges(a))])

DirtyPositions == {pos \in ActionPositions : ~ActionClean(ActionAt(pos))}
FirstActionViolation ==
    LET pos == FirstPosition(DirtyPositions)
    IN  ActionViolation(Phases[pos[1]].id, ActionAt(pos))

FirstUnknownNext ==
    LET i == FirstIndex(UnknownNextIndices)
    IN  UnknownPhaseReferenceError(Phases[i].id, Phases[i].next_phase[1])

(***************************************************************************)
(* C14 as stated.  validate reports the first violation in the order:      *)
(* empty id; duplicate phase id; unknown next_phase of any phase;          *)
(* per-action violations.  A rule set with an unknown next_phase in some   *)
(* phase and a per-action violation in some phase is rejected with the     *)
(* unknown-reference error.                                                *)
(***************************************************************************)
C14_AsStated ==
    Validated =>
        Returned =
           IF BlankId THEN Err(EmptyIdError)
           ELSE IF DuplicateIndices # {}
                THEN Err(DuplicatePhaseIdError(Phases[FirstIndex(DuplicateIndices)].id))
           ELSE IF UnknownNextIndices # {} THEN Err(FirstUnknownNext)
           ELSE IF DirtyPositions # {} THEN Err(FirstActionViolation)
           ELSE Ok(Unit)

(***************************************************************************)
(* C14 amended.  validate reports the first violation in the order: empty  *)
(* id; duplicate phase id; then phase by phase in declaration order, the   *)
(* phase's unknown next_phase followed by the violations of the phase's    *)
(* actions (per action: kind, constraint fields, state changes).  A rule   *)
(* set with a per-action violation in a phase that comes before every      *)
(* phase with an unknown next_phase is rejected with the per-action error. *)
(***************************************************************************)
C14_PhaseByPhaseOrder ==
    Validated =>
        Returned =
           IF BlankId THEN Err(EmptyIdError)
           ELSE IF DuplicateIndices # {}
                THEN Err(DuplicatePhaseIdError(Phases[FirstIndex(DuplicateIndices)].id))
           ELSE LET dirty == {i \in DOMAIN Phases : ~PhaseClean(i)} IN
                IF dirty = {} THEN Ok(Unit)
                ELSE LET i == FirstIndex(dirty) IN
                     IF UnknownNextAt(i)
                     THEN Err(UnknownPhaseReferenceError(Phases[i].id, Phases[i].next_phase[1]))
                     ELSE LET j == FirstIndex({j \in DOMAIN Phases[i].actions :
                                                  ~ActionClean(Phases[i].actions[j])})
                          IN  Err(ActionViolation(Phases[i].id, Phases[i].actions[j]))

C14_Witness ==
    /\ Validated
    /\ ~BlankId
    /\ DuplicateIndices = {}
    /\ UnknownNextIndices # {}
    /\ DirtyPositions # {}
    /\ FirstPosition(DirtyPositions)[1] < FirstIndex(UnknownNextIndices)
    /\ Returned = Err(FirstActionViolation)

\* the conditions of a valid rule set, blank meaning empty once trimmed
AllConditionsHold ==
    /\ ~BlankId
    /\ DuplicateIndices = {}
    /\ UnknownNextIndices = {}
    /\ \A pos \in ActionPositions : ActionClean(ActionAt(pos))

\* the same conditions with "non-empty" read as "not the empty string"
AllConditionsHoldUntrimmed ==
    /\ ruleset.id # ""
    /\ DuplicateIndices = {}
    /\ UnknownNextIndices = {}
    /\ \A pos \in ActionPositions :
          LET a == ActionAt(pos) IN
          /\ KindOk(a)
          /\ \A c \in DOMAIN a.constraints : a.constraints[c].field # ""
          /\ \A c \in DOMAIN a.result.state_changes :
                LET ch == a.result.state_changes[c] IN
                IF ch.type = "MoveFigures"
                THEN ch.from # ch.to /\ ch.count > 0
                ELSE ch.field_id # "" /\ ch.new_owner # ""

\* every error that names a violation the rule set contains
ViolationsPresent ==
    (IF BlankId THEN {EmptyIdError} ELSE {})
    \cup {DuplicatePhaseIdError(Phases[i].id) : i \in DuplicateIndices}
    \cup {UnknownPhaseReferenceError(Phases[i].id, Phases[i].next_phase[1]) :
             i \in UnknownNextIndices}
    \cup {InvalidActionKindError(Phases[pos[1]].id, ActionAt(pos).kind) :
             pos \in {q \in ActionPositions : ~KindOk(ActionAt(q))}}
    \cup {EmptyConstraintFieldError(ActionAt(pos).kind) :
             pos \in {q \in ActionPositions : ~FieldsOk(ActionAt(q))}}
    \cup UNION {{ChangeViolation(ActionAt(pos).result.state_changes[c]) :
                    c \in BadChanges(ActionAt(pos))} : pos \in ActionPositions}
    \cup UNION {{MoveZeroCountError :
                    c \in {d \in BadChanges(ActionAt(pos)) :
                              /\ ActionAt(pos).result.state_changes[d].type = "MoveFigures"
                              /\ ActionAt(pos).result.state_changes[d].count = 0}} :
                pos \in ActionPositions}

(***************************************************************************)
(* C15 as stated.  validate returns success exactly when the id is         *)
(* non-empty, phase ids are distinct, every next_phase names a declared    *)
(* phase, every kind is whitelisted, every constraint field is non-empty   *)
(* and every state change satisfies its invariant; otherwise it returns    *)
(* an error.                                                               *)
(***************************************************************************)
C15_AsStated ==
    Validated =>
        /\ Returned = Ok(Unit) <=> AllConditionsHoldUntrimmed
        /\ ~AllConditionsHoldUntrimmed => ~Returned.ok

(***************************************************************************)
(* C15 amended.  validate returns success exactly when the id is not       *)
(* blank (empty once white space is trimmed), phase ids are distinct,      *)
(* every next_phase names a declared phase, every kind is whitelisted, no  *)
(* constraint field is blank and every state change satisfies its          *)
(* invariant (ChangeOwner: neither field blank); otherwise it returns      *)
(* exactly one error, which names a violation the rule set contains.       *)
(***************************************************************************)
C15_SuccessIffAllHold ==
    Validated =>
        /\ Returned = Ok(Unit) <=> AllConditionsHold
        /\ ~AllConditionsHold => (~Returned.ok /\ Returned.err \in ViolationsPresent)

C15_Witness ==
    /\ Validated
    /\ ruleset.id = " "
    /\ Len(Phases) = MaxPhases
    /\ ~Returned.ok

(***************************************************************************)
(* C16 as stated.  For every rule set in which two phases share an id,     *)
(* validate returns the duplicate-phase-id error naming the first id, in   *)
(* declaration order, to collide with an earlier phase.                    *)
(***************************************************************************)
C16_AsStated ==
    (Validated /\ DuplicateIndices # {}) =>
        Returned = Err(DuplicatePhaseIdError(Phases[FirstIndex(DuplicateIndices)].id))

(***************************************************************************)
(* C16 amended.  For every rule set whose id is not blank and in which     *)
(* two phases share an id, validate returns the duplicate-phase-id error   *)
(* naming the first id, in declaration order, to collide with an earlier   *)
(* phase; when the id is blank it returns the empty-id error instead.      *)
(***************************************************************************)
C16_DuplicatePhaseId ==
    (Validated /\ DuplicateIndices # {}) =>
        Returned =
           IF BlankId THEN Err(EmptyIdError)
           ELSE Err(DuplicatePhaseIdError(Phases[FirstIndex(DuplicateIndices)].id))

C16_Witness ==
    /\ Validated
    /\ ~BlankId
    /\ DuplicateIndices # {}
    /\ ~PhaseClean(1)
    /\ Returned.err.args = <<"place">>

(***************************************************************************)
(* C17 as stated.  For every rule set in which some phase's next_phase is  *)
(* the id of no declared phase, validate returns the                       *)
(* unknown-phase-reference error.                                          *)
(***************************************************************************)
C17_AsStated ==
    (Validated /\ UnknownNextIndices # {}) =>
        Returned \in {Err(UnknownPhaseReferenceError(Phases[i].id, Phases[i].next_phase[1])) :
                         i \in UnknownNextIndices}

(***************************************************************************)
(* C17 amended.  For every rule set in which some phase's next_phase is    *)
(* the id of no declared phase, validate fails; it returns the             *)
(* unknown-phase-reference error, for the first such phase, when the id    *)
(* is not blank, phase ids are distinct and no earlier phase has an        *)
(* action violation.                                                       *)
(***************************************************************************)
C17_UnknownPhaseReference ==
    (Validated /\ UnknownNextIndices # {}) =>
        /\ ~Returned.ok
        /\ (/\ ~BlankId
            /\ DuplicateIndices = {}
            /\ \A k \in 1..(FirstIndex(UnknownNextIndices) - 1) : PhaseClean(k))
           => Returned = Err(FirstUnknownNext)

C17_Witness ==
    /\ Validated
    /\ UnknownNextIndices = {MaxPhases}
    /\ Phases[1].actions # <<>>
    /\ Returned = Err(FirstUnknownNext)

\* the rule set is free of violations ahead of action pos: in the id, the
\* phase ids, the earlier phases, the next_phase of its phase and the earlier
\* actions of its phase
CleanBefore(pos) ==
    /\ ~BlankId
    /\ DuplicateIndices = {}
    /\ \A k \in 1..(pos[1] - 1) : PhaseClean(k)
    /\ ~UnknownNextAt(pos[1])
    /\ \A l \in 1..(pos[2] - 1) : ActionClean(Phases[pos[1]].actions[l])

BadChangePositions == {pos \in ActionPositions : ~ChangesOk(ActionAt(pos))}

(***************************************************************************)
(* C18 as stated.  A state change passes validation exactly when           *)
(* MoveFigures has from # to and count > 0, and ChangeOwner has field_id   *)
(* and new_owner non-empty; any action containing a violating state        *)
(* change makes validate return an invalid-state-change error.             *)
(***************************************************************************)
C18_AsStated ==
    LET violates(ch) ==
            IF ch.type = "MoveFigures"
            THEN ch.from = ch.to \/ ch.count = 0
            ELSE ch.field_id = "" \/ ch.new_owner = ""
        violating == {pos \in ActionPositions :
                         \E c \in DOMAIN ActionAt(pos).result.state_changes :
                            violates(ActionAt(pos).result.state_changes[c])}
    IN  Validated =>
           IF violating # {}
           THEN ~Returned.ok /\ Returned.err \in StateChangeErrors
           ELSE Returned.ok \/ Returned.err \notin StateChangeErrors

(***************************************************************************)
(* C18 amended.  A state change passes validation exactly when             *)
(* MoveFigures has from # to and count > 0, and ChangeOwner has neither    *)
(* field_id nor new_owner blank (empty once trimmed).  Any action          *)
(* containing a violating state change makes validate fail; the error is   *)
(* an invalid-state-change error when nothing ahead of that action, and    *)
(* neither its kind nor its constraint fields, is in violation; and an     *)
(* invalid-state-change error is only returned for a rule set that         *)
(* contains a violating state change.                                      *)
(***************************************************************************)
C18_StateChangeInvariant ==
    Validated =>
        /\ BadChangePositions # {} => ~Returned.ok
        /\ (~Returned.ok /\ Returned.err \in StateChangeErrors) => BadChangePositions # {}
        /\ \A pos \in BadChangePositions :
              (CleanBefore(pos) /\ KindOk(ActionAt(pos)) /\ FieldsOk(ActionAt(pos)))
              => Returned =
                    Err(ChangeViolation(ActionAt(pos).result.state_changes[
                                           FirstIndex(BadChanges(ActionAt(pos)))]))
        /\ (/\ ~BlankId
            /\ DuplicateIndices = {}
            /\ UnknownNextIndices = {}
            /\ \A pos \in ActionPositions : KindOk(ActionAt(pos)) /\ FieldsOk(ActionAt(pos)))
           => (Returned = Ok(Unit) <=> BadChangePositions = {})

C18_Witness ==
    /\ Validated
    /\ Returned = Err(MoveZeroCountError)
    /\ Len(Phases) = MaxPhases
    /\ \E pos \in ActionPositions :
          \E c \in DOMAIN ActionAt(pos).result.state_changes :
             /\ ActionAt(pos).result.state_changes[c].type = "ChangeOwner"
             /\ ChangeOk(ActionAt(pos).result.state_changes[c])

BadKindPositions == {pos \in ActionPositions : ~KindOk(ActionAt(pos))}

(***************************************************************************)
(* C19 as stated.  An action whose kind is not whitelisted makes validate  *)
(* fail with the invalid-action-kind error carrying the enclosing phase    *)
(* id and the kind; a whitelisted kind never triggers that error.          *)
(***************************************************************************)
C19_AsStated ==
    Validated =>
        /\ BadKindPositions # {} =>
              Returned \in {Err(InvalidActionKindError(Phases[pos[1]].id, ActionAt(pos).kind)) :
                               pos \in BadKindPositions}
        /\ \A pos \in ActionPositions \ BadKindPositions :
              Returned # Err(InvalidActionKindError(Phases[pos[1]].id, ActionAt(pos).kind))

(***************************************************************************)
(* C19 amended.  An action whose kind is not whitelisted makes validate    *)
(* fail; the error is the invalid-action-kind error carrying the           *)
(* enclosing phase id and the kind when nothing ahead of that action is    *)
(* in violation (id, phase ids, earlier phases, the phase's next_phase,    *)
(* the phase's earlier actions).  A whitelisted kind never triggers that   *)
(* error: when it is returned, it names a phase and a non-whitelisted      *)
(* kind of one of that phase's actions.                                    *)
(***************************************************************************)
C19_InvalidActionKind ==
    Validated =>
        /\ BadKindPositions # {} => ~Returned.ok
        /\ \A pos \in BadKindPositions :
              CleanBefore(pos) =>
                 Returned = Err(InvalidActionKindError(Phases[pos[1]].id, ActionAt(pos).kind))
        /\ \A p \in RulePhaseIds, k \in AllowedKinds \cup {ActionAt(pos).kind : pos \in ActionPositions} :
              Returned = Err(InvalidActionKindError(p, k)) =>
                 /\ k \notin AllowedKinds
                 /\ \E pos \in BadKindPositions :
                       Phases[pos[1]].id = p /\ ActionAt(pos).kind = k

C19_Witness ==
    /\ Validated
    /\ \E pos \in BadKindPositions :
          /\ pos # <<1, 1>>
          /\ Returned = Err(InvalidActionKindError(Phases[pos[1]].id, ActionAt(pos).kind))
          /\ ~FieldsOk(ActionAt(pos))

(***************************************************************************)
(* The loader (base/src/loader.rs) and engine construction.                *)
(*                                                                         *)
(* A path is its sequence of components and a component the sequence of    *)
(* the parts of the name between its dots, so "wad/teg.rule.ron" is        *)
(* <<<<"wad">>, <<"teg", "rule", "ron">>>>.  A file system maps the paths  *)
(* of its files to their contents.                                         *)
(***************************************************************************)
DotDot == <<"..">>
Wad == <<"wad">>

\* Path::parent
Parent(path) == IF path = <<>> THEN None ELSE Some(SubSeq(path, 1, Len(path) - 1))

\* Path::file_stem: the file name without its last extension
FileStem(path) ==
    IF path = <<>> \/ path[Len(path)] = DotDot THEN None
    ELSE LET name == path[Len(path)] IN
         Some(IF Len(name) > 1 THEN SubSeq(name, 1, Len(name) - 1) ELSE name)

\* Path::is_file
IsFile(fs, path) == path \in DOMAIN fs

InvalidPathError(path) == Validation("Invalid path (no parent dir): {}", <<path>>)
InvalidFileNameError(path) == Validation("Invalid file name: {}", <<path>>)
FileNotFoundError(kind, name, plain, with_ron) ==
    Validation("{} file '{}' not found at either {:?} or {:?}",
               <<kind, name, plain, with_ron>>)
\* DataError::Io and DataError::ParseRon
IoError(path) == [template |-> "I/O error while reading {path:?}: {source}", args |-> <<path>>]
ParseRonError(path) == [template |-> "RON parse error in {path:?}: {source}", args |-> <<path>>]

\* verify_file
VerifyFile(fs, name, kind, base) ==
    LET plain == Append(base, name)
        with_ron == Append(base, Append(name, "ron"))
    IN  IF IsFile(fs, plain) \/ IsFile(fs, with_ron)
        THEN Ok(Unit)
        ELSE Err(FileNotFoundError(kind, name, plain, with_ron))

\* what a file holds: whether it can be opened, and the RuleSet its text
\* decodes to, if it decodes
Locked == [readable |-> FALSE, ron |-> None]
Garbled == [readable |-> TRUE, ron |-> None]
RonFile(rs) == [readable |-> TRUE, ron |-> Some(rs)]

\* File::open
Open(fs, path) ==
    IF IsFile(fs, path) /\ fs[path].readable THEN Ok(fs[path]) ELSE Err(IoError(path))

\* ron::de::from_reader
FromReader(file, path) ==
    IF IsSome(file.ron) THEN Ok(Unwrap(file.ron)) ELSE Err(ParseRonError(path))

\* load_ron up to the decoded value `data`
ReadRon(fs, path) ==
    LET base == Parent(path) IN
    IF ~IsSome(base) THEN Err(InvalidPathError(path))
    ELSE
    LET name == FileStem(path) IN
    IF ~IsSome(name) THEN Err(InvalidFileNameError(path))
    ELSE
    LET found == VerifyFile(fs, Unwrap(name), "RON data file", Unwrap(base)) IN
    IF ~found.ok THEN found
    ELSE
    LET file == Open(fs, path) IN
    IF ~file.ok THEN file
    ELSE FromReader(file.val, path)

\* load_ron::<RuleSet, _>
LoadRon(fs, path) ==
    LET data == ReadRon(fs, path) IN
    IF ~data.ok THEN data
    ELSE
    LET valid == Validate(data.val) IN
    IF ~valid.ok THEN valid
    ELSE Ok(data.val)

\* the rule sets files hold: at most one phase
StoredRuleSets ==
    {[id |-> i, phases |-> p] :
        i \in RuleSetIds, p \in {<<>>} \cup {<<d>> : d \in PhaseDefinitions}}

FileNames == {<<"teg", "ron">>, <<"teg">>, <<"teg", "txt">>}
FilePaths == {<<Wad, n>> : n \in FileNames}
FileContents == {Locked, Garbled} \cup {RonFile(rs) : rs \in StoredRuleSets}

\* the directory wad holds no file or one file
FileSystems ==
    {<<>>} \cup {[q \in {p} |-> c] : p \in FilePaths, c \in FileContents}

\* the paths callers pass
LoadPaths == {<<>>, <<Wad, DotDot>>} \cup FilePaths

\* neither the loader nor the engine has been used
InitLoad ==
    /\ loaded = NotLoaded
    /\ board = NoBoard
    /\ checked = NotChecked
    /\ ruleset = NoRuleSet
    /\ verdict = NotValidated
    /\ doc = <<>>
    /\ config = <<>>
    /\ current_phase = ""
    /\ observers = <<>>
    /\ delivered = <<>>
    /\ last = <<>>

\* a call of load_ron::<RuleSet, _>(path) on the file system fs; `ruleset` and
\* `verdict` record the value it decoded and what validate returned for it
load_ron(fs, path) ==
    /\ loaded = NotLoaded
    /\ loaded' = Some(LoadRon(fs, path))
    /\ LET data == ReadRon(fs, path) IN
       IF data.ok
       THEN ruleset' = data.val /\ verdict' = Some(Validate(data.val))
       ELSE UNCHANGED <<ruleset, verdict>>
    /\ UNCHANGED <<board, checked, doc, config, current_phase, observers, delivered, last>>

\* a call of PhaseFlowControl::new on the PhaseFlowConfig decoded from d
new(d) ==
    /\ last = <<>>
    /\ LET engine == New(Deserialize(d)) IN
       /\ doc' = d
       /\ config' = engine.config
       /\ current_phase' = engine.current_phase
       /\ observers' = engine.observers
       /\ delivered' = <<>>
       /\ last' = [op |-> "new", action |-> NoArg, result |-> NoArg, ret |-> Unit,
                   phase |-> engine.current_phase, observers |-> <<>>, seen |-> 0,
                   first |-> FALSE]
    /\ UNCHANGED <<board, checked, loaded, ruleset, verdict>>

NextLoad ==
    \/ \E fs \in FileSystems, path \in LoadPaths : load_ron(fs, path)
    \/ \E d \in Docs : new(d)

SpecLoad == InitLoad /\ [][NextLoad]_vars

\* load_ron has returned a decoded value
LoadedValue == IsSome(loaded) /\ Unwrap(loaded).ok
\* an engine has been constructed
EngineExists == last # <<>>

(***************************************************************************)
(* C21.  An engine is only ever constructed from a configuration that has  *)
(* passed validation: load_ron returns a decoded value only after          *)
(* validate succeeded on it, and whenever an engine exists, the            *)
(* configuration document it was constructed from is a value load_ron      *)
(* returned.                                                               *)
(***************************************************************************)
C21_AsStated ==
    /\ LoadedValue =>
          /\ Unwrap(loaded).val = ruleset
          /\ verdict = Some(Ok(Unit))
          /\ AllConditionsHold
    /\ EngineExists => loaded = Some(Ok(doc))

(***************************************************************************)
(* C22.  Observers are never removed or reordered: every call leaves the   *)
(* observers registered before it at their positions, and add_observer     *)
(* puts its handle behind them and changes nothing else of the list.       *)
(***************************************************************************)
C22_ObserversKept ==
    [][/\ Len(observers') >= Len(observers)
       /\ SubSeq(observers', 1, Len(observers)) = observers
       /\ IF last'.op = "add_observer"
          THEN observers' = Append(observers, last'.action)
          ELSE observers' = observers]_vars

C22_Witness ==
    /\ last.op = "execute_action"
    /\ last.ret = Ok(Unit)
    /\ observers = <<"o3", "o1">>
    /\ Len(Stream("o3")) > Len(Stream("o1"))

(***************************************************************************)
(* C23.  A call of execute_action or check_constraints that returns an     *)
(* error leaves the whole engine state (configuration, current_phase,      *)
(* observer list) as it was and calls no observer, so the engine a later   *)
(* call runs on is the engine the failed call found.                       *)
(***************************************************************************)
C23_ErrorLeavesState ==
    [][(/\ last'.op \in {"execute_action", "check_constraints"}
        /\ ~last'.ret.ok)
          => UNCHANGED <<doc, config, current_phase, observers, delivered>>]_vars

C23_Witness ==
    /\ last.op = "check_constraints"
    /\ last.ret = Err(ActionNotFound)
    /\ Len(observers) > 0
    /\ Len(delivered) > 0
    /\ current_phase # doc.default_phase

(***************************************************************************)
(* C24.  While current_phase is a phase for which the document lists no    *)
(* action, every call of execute_action returns an error, every call of    *)
(* available_actions returns the empty list, every call of                 *)
(* is_action_allowed returns false, and no call changes current_phase.     *)
(***************************************************************************)
C24_PracticalTerminal ==
    [][DeclaredKinds(current_phase) = {} =>
          /\ current_phase' = current_phase
          /\ last'.op = "execute_action" => ~last'.ret.ok
          /\ last'.op = "available_actions" => last'.ret = <<>>
          /\ last'.op = "is_action_allowed" => last'.ret = FALSE]_vars

C24_Witness ==
    /\ current_phase \in DeclaredPhases
    /\ DeclaredKinds(current_phase) = {}
    /\ last.op = "execute_action"
    /\ last.phase = current_phase
    /\ last.ret = Err(InvalidActionOrResult)
    /\ Len(delivered) > 0

(***************************************************************************)
(* C25.  When the current phase declares the action, check_constraints     *)
(* returns Ok(true), leaves current_phase unchanged and emits exactly one  *)
(* event: every registered observer is called exactly once, with           *)
(* ConstraintChecked whose phase is current_phase, whose action is the     *)
(* argument and whose success flag is the returned value.                  *)
(***************************************************************************)
C25_CheckSucceeds ==
    (last.op = "check_constraints" /\ Declares(last.phase, last.action)) =>
        /\ last.ret = Ok(TRUE)
        /\ current_phase = last.phase
        /\ Len(NewDeliveries) = Len(observers)
        /\ \A o \in Range(observers) :
              ReceivedBy(o) =
                 << [observer |-> o,
                     event |-> [type |-> "ConstraintChecked", phase |-> current_phase,
                                action |-> last.action, success |-> last.ret.val],
                     at |-> current_phase] >>

C25_Witness ==
    /\ last.op = "check_constraints"
    /\ Declares(last.phase, last.action)
    /\ Len(observers) = 2
    /\ current_phase # doc.default_phase

(***************************************************************************)
(* C26.  validate resolves next_phase against the ids of all phases of     *)
(* the rule set: it never reports a next_phase that names a phase of the   *)
(* rule set as unknown, wherever that phase is listed, and a rule set      *)
(* whose only peculiarity is such references (to a later phase, to the     *)
(* phase itself) is accepted.                                              *)
(***************************************************************************)
C26_ForwardReferences ==
    Validated =>
        /\ \A i \in DOMAIN Phases :
              (/\ IsSome(Phases[i].next_phase)
               /\ \E k \in DOMAIN Phases : Phases[k].id = Unwrap(Phases[i].next_phase))
              => Returned # Err(UnknownPhaseReferenceError(Phases[i].id,
                                                           Unwrap(Phases[i].next_phase)))
        /\ (/\ ~BlankId
            /\ DuplicateIndices = {}
            /\ \A pos \in ActionPositions : ActionClean(ActionAt(pos))
            /\ \A i \in DOMAIN Phases :
                  IsSome(Phases[i].next_phase) =>
                     \E k \in DOMAIN Phases : Phases[k].id = Unwrap(Phases[i].next_phase))
           => Returned = Ok(Unit)

C26_Witness ==
    /\ Validated
    /\ Returned = Ok(Unit)
    /\ Len(Phases) = 2
    /\ Phases[1].id = "setup" /\ Phases[1].next_phase = Some("place")
    /\ Phases[2].id = "place" /\ Phases[2].next_phase = Some("place")

(***************************************************************************)
(* C27.  current_phase changes only through a successful execute_action:   *)
(* a step that changes it is an execute_action call that returned Ok, and  *)
(* is_action_allowed, check_constraints, available_actions,                *)
(* current_phase, add_observer and a failed execute_action leave it as it  *)
(* was.                                                                    *)
(***************************************************************************)
C27_OnlyExecuteChangesPhase ==
    [][/\ current_phase' # current_phase =>
             (last'.op = "execute_action" /\ last'.ret = Ok(Unit))
       /\ (\/ last'.op \in {"is_action_allowed", "check_constraints",
                            "available_actions", "current_phase", "add_observer"}
           \/ (last'.op = "execute_action" /\ last'.ret # Ok(Unit)))
             => current_phase' = current_phase]_vars

C27_Witness ==
    /\ last.op = "execute_action"
    /\ last.ret = Err(InvalidActionOrResult)
    /\ current_phase # doc.default_phase
    /\ current_phase \in DeclaredPhases
    /\ doc.default_phase \in DeclaredPhases

(***************************************************************************)
(* C28.  If default_phase and every target of every result map of the      *)
(* document are ids of declared phases, current_phase is a declared phase  *)
(* in every reachable state.  The engine itself checks nothing: after      *)
(* construction current_phase is default_phase, and after a successful     *)
(* execute_action it is the id the result map holds, declared or not.      *)
(***************************************************************************)
AllTargetsDeclared ==
    /\ doc.default_phase \in DeclaredPhases
    /\ \A i \in DOMAIN doc.phases : \A j \in DOMAIN doc.phases[i].actions :
          \A l \in DOMAIN doc.phases[i].actions[j].result :
             doc.phases[i].actions[j].result[l] \in DeclaredPhases

C28_DeclaredIfTargetsDeclared ==
    /\ AllTargetsDeclared => current_phase \in DeclaredPhases
    /\ last.op = "new" => current_phase = doc.default_phase
    /\ (last.op = "execute_action" /\ last.ret = Ok(Unit)) =>
          \E i \in DOMAIN doc.phases : \E j \in DOMAIN doc.phases[i].actions :
             /\ doc.phases[i].id = last.phase
             /\ doc.phases[i].actions[j].kind = last.action
             /\ last.result \in DOMAIN doc.phases[i].actions[j].result
             /\ current_phase = doc.phases[i].actions[j].result[last.result]

C28_Witness ==
    /\ AllTargetsDeclared
    /\ last.op = "execute_action"
    /\ last.ret = Ok(Unit)
    /\ current_phase # last.phase
    /\ current_phase = doc.default_phase

(***************************************************************************)
(* C29.  A successful execute_action whose result maps to the current      *)
(* phase itself still calls every observer twice, with ActionExecuted and  *)
(* then with PhaseChanged whose from and to are both that phase, and       *)
(* leaves current_phase at its previous value.                             *)
(***************************************************************************)
SelfLoop ==
    /\ last.op = "execute_action"
    /\ <<last.result, last.phase>> \in DeclaredResults(last.phase, last.action)

C29_SelfLoop ==
    SelfLoop =>
        /\ last.ret = Ok(Unit)
        /\ current_phase = last.phase
        /\ Len(NewDeliveries) = 2 * Len(observers)
        /\ \A o \in Range(observers) :
              LET r == ReceivedBy(o) IN
              /\ Len(r) = 2
              /\ r[1].event = ActionExecuted(last.phase, last.action, last.result)
              /\ r[2].event.type = "PhaseChanged"
              /\ r[2].event.from = r[2].event.to
              /\ r[2].event.to = current_phase

C29_Witness ==
    /\ SelfLoop
    /\ Len(observers) = 2
    /\ Len(delivered) = 4
    /\ current_phase # doc.default_phase

(***************************************************************************)
(* C30.  An observer has received nothing while it is not registered;      *)
(* every call delivers the same events, in the same order, to all          *)
(* observers registered when it runs; so the events an observer has        *)
(* received are a suffix of the events every observer registered before    *)
(* it has received.                                                        *)
(***************************************************************************)
Events(o) == [i \in DOMAIN Stream(o) |-> Stream(o)[i].event]

IsSuffix(s, t) == Len(s) <= Len(t) /\ s = SubSeq(t, Len(t) - Len(s) + 1, Len(t))

C30_LateObserver ==
    /\ \A o \in ObserverIds \ Range(observers) : Stream(o) = <<>>
    /\ \A i, j \in DOMAIN observers :
          i < j => IsSuffix(Events(observers[j]), Events(observers[i]))
    /\ \A o \in Range(observers) :
          [k \in DOMAIN ReceivedBy(o) |-> ReceivedBy(o)[k].event] =
             [k \in DOMAIN ReceivedBy(observers[1]) |-> ReceivedBy(observers[1])[k].event]

C30_Witness ==
    /\ Len(observers) = 2
    /\ Len(Stream(observers[2])) > 0
    /\ Len(Stream(observers[1])) > Len(Stream(observers[2]))
    /\ last.op = "check_constraints"

(***************************************************************************)
(* Board validation (base/src/board.rs).                                   *)
(*                                                                         *)
(* A FieldStructure holds its fields and its sets in HashSets of whole     *)
(* entries, so two fields may share an id when they differ elsewhere, and  *)
(* a loop over either visits the entries in an order the set does not      *)
(* specify.  The relations are a Vec and keep the order they are listed    *)
(* in.                                                                     *)
(***************************************************************************)
DuplicateFieldIdError(id) == Validation("Duplicate field id: {}", <<id>>)
UnknownSetError(field_id, set_id) ==
    Validation("Field {} references unknown set {}", <<field_id, set_id>>)
DuplicateSetIdError(id) == Validation("Duplicate set id: {}", <<id>>)
RelationFromUnknownError(id) == Validation("Relation from unknown field id: {}", <<id>>)
RelationToUnknownError(id) == Validation("Relation to unknown field id: {}", <<id>>)

\* the loop over the fields, visited in the order `fields`; Ok carries
\* seen_fields
RECURSIVE CheckFields(_, _, _, _)
CheckFields(fields, i, seen_fields, sets) ==
    IF i > Len(fields) THEN Ok(seen_fields)
    ELSE LET field == fields[i] IN
         IF field.id \in seen_fields
         THEN Err(DuplicateFieldIdError(field.id))
         ELSE IF ~(\E s \in sets : s.id = field.set_id)
         THEN Err(UnknownSetError(field.id, field.set_id))
         ELSE CheckFields(fields, i + 1, seen_fields \cup {field.id}, sets)

\* the loop over the sets, visited in the order `sets`
RECURSIVE CheckSets(_, _, _)
CheckSets(sets, i, seen_sets) ==
    IF i > Len(sets) THEN Ok(Unit)
    ELSE IF sets[i].id \in seen_sets
         THEN Err(DuplicateSetIdError(sets[i].id))
         ELSE CheckSets(sets, i + 1, seen_sets \cup {sets[i].id})

\* CheckRelation looking at the first endpoint only
CheckRelationFromOnly(relation, seen_fields) ==
    IF relation[1] \notin seen_fields THEN Err(RelationFromUnknownError(relation[1]))
    ELSE Ok(Unit)

\* the body of the loop over the relations
CheckRelation(relation, seen_fields) ==
    IF relation[1] \notin seen_fields THEN Err(RelationFromUnknownError(relation[1]))
    ELSE IF relation[2] \notin seen_fields THEN Err(RelationToUnknownError(relation[2]))
    ELSE Ok(Unit)

RECURSIVE CheckRelations(_, _, _)
CheckRelations(relations, i, seen_fields) ==
    IF i > Len(relations) THEN Ok(Unit)
    ELSE LET r == CheckRelation(relations[i], seen_fields) IN
         IF ~r.ok THEN r ELSE CheckRelations(relations, i + 1, seen_fields)

\* FieldStructure::validate, the HashSets being iterated in the orders
\* field_order and set_order
ValidateBoard(field_order, set_order, relations) ==
    LET f == CheckFields(field_order, 1, {}, Range(set_order)) IN
    IF ~f.ok THEN f
    ELSE LET s == CheckSets(set_order, 1, {}) IN
         IF ~s.ok THEN s ELSE CheckRelations(relations, 1, f.val)

(***************************************************************************)
(* The boards validate is applied to.                                      *)
(***************************************************************************)
FieldElements ==
    {[id |-> i, set_id |-> s, name |-> n] : i \in {1, 2}, s \in {1, 2}, n \in {"a", "b"}}
FieldSets == {[id |-> i, name |-> n] : i \in {1, 2}, n \in {"x", "y"}}
\* field 3 is on no board
FieldRelations == {<<from, to>> : from \in {1, 3}, to \in {1, 3}}
\* the relation lists of the boards: none, one or two relations
RelationLists ==
    {<<>>} \cup {<<r>> : r \in FieldRelations}
           \cup {<<r, q>> : r \in FieldRelations, q \in FieldRelations}

InitBoard ==
    /\ \E f \in SUBSET FieldElements, s \in SUBSET FieldSets, r \in RelationLists :
          /\ Cardinality(f) <= MaxEntries
          /\ Cardinality(s) <= MaxEntries
          /\ board = [fields |-> f, sets |-> s, relations |-> r]
    /\ checked = NotChecked
    /\ ruleset = NoRuleSet
    /\ verdict = NotValidated
    /\ loaded = NotLoaded
    /\ doc = <<>>
    /\ config = <<>>
    /\ current_phase = ""
    /\ observers = <<>>
    /\ delivered = <<>>
    /\ last = <<>>

\* a call of board.validate()
board_validate ==
    /\ \E field_order \in Orderings(board.fields), set_order \in Orderings(board.sets) :
          checked' = Some(ValidateBoard(field_order, set_order, board.relations))
    /\ UNCHANGED <<board, loaded, ruleset, verdict, doc, config, current_phase, observers,
                   delivered, last>>

NextBoard == board_validate

SpecBoard == InitBoard /\ [][NextBoard]_vars

(***************************************************************************)
(* What a board contains, read off the board itself.                       *)
(***************************************************************************)
BoardChecked == IsSome(checked)
BoardReturned == Unwrap(checked)

FieldIdsUnique == \A f, g \in board.fields : f.id = g.id => f = g
SetReferencesExist == \A f \in board.fields : \E s \in board.sets : s.id = f.set_id
SetIdsUnique == \A s, t \in board.sets : s.id = t.id => s = t
EndpointsExist ==
    \A i \in DOMAIN board.relations : \A e \in {1, 2} :
       \E f \in board.fields : f.id = board.relations[i][e]

\* the relations of the board listed in every order
Relistings ==
    {[i \in DOMAIN board.relations |-> board.relations[p[i]]] :
        p \in Orderings(DOMAIN board.relations)}

(***************************************************************************)
(* C31.  validate accepts a board if and only if its field ids are         *)
(* unique, every field's set_id is the id of one of its sets, its set ids  *)
(* are unique and both endpoints of every relation are ids of its fields;  *)
(* whether it accepts or rejects is the same for every order in which the  *)
(* fields and the sets are visited and the relations are listed.           *)
(***************************************************************************)
C31_BoardAcceptsIff ==
    BoardChecked =>
        /\ BoardReturned.ok <=>
              (FieldIdsUnique /\ SetReferencesExist /\ SetIdsUnique /\ EndpointsExist)
        /\ \A field_order \in Orderings(board.fields), set_order \in Orderings(board.sets),
              relations \in Relistings :
              ValidateBoard(field_order, set_order, relations).ok = BoardReturned.ok

C31_Witness ==
    /\ BoardChecked
    /\ BoardReturned = Ok(Unit)
    /\ Cardinality(board.fields) = 2
    /\ Cardinality(board.sets) = 2
    /\ Len(board.relations) = 2
    /\ \E f \in board.fields : f.set_id = 2

====
